---- MODULE Spec2Model ----
(***************************************************************************)
(* A model of hyperverge.js, the Hyperverge command line client: the       *)
(* resolution of the configuration (CLI options merged with a JSON file),  *)
(* the boot log, the dispatch on the action, uploadFile, the single-file   *)
(* handler, the directory-mode promise chain and writeResults.             *)
(*                                                                         *)
(* JavaScript strings are sequences of one-character strings; a JavaScript *)
(* value that may be undefined is a record [def, s].                       *)
(***************************************************************************)
EXTENDS Integers, Sequences, FiniteSets

(***************************************************************************)
(* Bounds of the model.                                                    *)
(***************************************************************************)
\* the number of plain files in the root directory of a directory-mode run
MaxRootFiles == 2
\* the number of plain files in its subdirectory
MaxSubFiles == 1

(***************************************************************************)
(* JavaScript values.                                                      *)
(***************************************************************************)
Undef == [def |-> FALSE, s |-> <<>>]
Str(s) == [def |-> TRUE, s |-> s]
\* the empty string ''
Empty == Str(<<>>)

\* JavaScript truthiness of a string-or-undefined value
Truthy(v) == v.def /\ v.s # <<>>

\* a || b
Or(a, b) == IF Truthy(a) THEN a ELSE b

\* String(v): what a RegExp sees when it is handed v
StringOf(v) == IF v.def THEN v.s ELSE <<"u", "n", "d", "e", "f", "i", "n", "e", "d">>

Lower(c) ==
    CASE c = "P" -> "p"
      [] c = "N" -> "n"
      [] c = "G" -> "g"
      [] c = "D" -> "d"
      [] c = "F" -> "f"
      [] c = "J" -> "j"
      [] c = "I" -> "i"
      [] c = "T" -> "t"
      [] c = "E" -> "e"
      [] OTHER -> c

LowerCase(s) == [i \in 1..Len(s) |-> Lower(s[i])]

EndsWith(s, w) ==
    /\ Len(s) >= Len(w)
    /\ SubSeq(s, Len(s) - Len(w) + 1, Len(s)) = w

\* the index of the last occurrence of c in s, 0 when there is none
LastIndexOf(s, c) ==
    IF \E i \in 1..Len(s) : s[i] = c
    THEN CHOOSE i \in 1..Len(s) : s[i] = c /\ \A j \in (i + 1)..Len(s) : s[j] # c
    ELSE 0

\* the index of the first occurrence of c in s, 0 when there is none
IndexOf(s, c) ==
    IF \E i \in 1..Len(s) : s[i] = c
    THEN CHOOSE i \in 1..Len(s) : s[i] = c /\ \A j \in 1..(i - 1) : s[j] # c
    ELSE 0

(***************************************************************************)
(* The constants of the program.                                           *)
(***************************************************************************)
A_test == <<"t", "e", "s", "t">>
A_readPAN == <<"r", "e", "a", "d", "P", "A", "N">>
A_readPassport == <<"r", "e", "a", "d", "P", "a", "s", "s", "p", "o", "r", "t">>
A_readAadhaar == <<"r", "e", "a", "d", "A", "a", "d", "h", "a", "a", "r">>
A_readKYC == <<"r", "e", "a", "d", "K", "Y", "C">>

availableActions == {A_test, A_readPAN, A_readPassport, A_readAadhaar, A_readKYC}

\* the alternatives of /(gif|jpe?g|tiff|png|pdf)$/i
ExtensionWords ==
    { <<"g", "i", "f">>, <<"j", "p", "g">>, <<"j", "p", "e", "g">>,
      <<"t", "i", "f", "f">>, <<"p", "n", "g">>, <<"p", "d", "f">> }

\* supportedFileExtensions.test(v): the pattern is anchored at the end only
supportedFileExtensions(v) ==
    \E w \in ExtensionWords : EndsWith(LowerCase(StringOf(v)), w)

\* process.cwd()
Cwd == <<"/", "w">>

normalisePath(filePath) ==
    IF Len(filePath) > 0 /\ filePath[1] = "/"
    THEN filePath
    ELSE Cwd \o <<"/">> \o filePath

\* path.extname(p): from the last "." of the last path segment, "" when that
\* segment has no "." or only a leading one
extname(p) ==
    LET slash == LastIndexOf(p, "/")
        base == SubSeq(p, slash + 1, Len(p))
        dot == LastIndexOf(base, ".")
    IN  IF dot <= 1 THEN <<>> ELSE SubSeq(base, dot, Len(base))

\* s.split('.')[1]: the text between the first and the second ".", undefined
\* when s has no "."
SplitDotSecond(s) ==
    LET first == IndexOf(s, ".")
        rest == SubSeq(s, first + 1, Len(s))
        second == IndexOf(rest, ".")
    IN  IF first = 0 THEN Undef
        ELSE IF second = 0 THEN Str(rest)
        ELSE Str(SubSeq(rest, 1, second - 1))

\* the exit codes of handleError
E_MissingPath == 100
E_Conflict == 101
E_ConfigFile == 102
E_InvalidAction == 103
E_Failed == 104
E_Credentials == 105
\* the exit code of node for an uncaught exception
E_Uncaught == 1

(***************************************************************************)
(* The inputs: what the command line, the configuration file, the file     *)
(* system and the network can hand to the program.                         *)
(***************************************************************************)
ConfigKeys == {"action", "directory", "file", "output", "appKey", "appId", "host"}

\* an action name that is not one of availableActions
A_bogus == <<"x">>

P_dir == <<"/", "d">>
P_jsonDir == <<"/", "e">>
P_file == <<"/", "a", ".", "p", "n", "g">>
P_relFile == <<"c", ".", "t", "x", "t">>
P_jsonFile == <<"/", "b", ".", "P", "D", "F">>
DefaultHost == <<"h", "v", "/", "v", "2">>

\* program after .parse(process.argv): an option that is not on the command
\* line holds its default, 'test' for action, '' for output, appKey and appId,
\* undefined for the others
CliOptions ==
    [ action : {Str(A_test), Str(A_readPAN), Str(A_bogus)},
      directory : {Undef, Str(P_dir)},
      file : {Undef, Str(P_file), Str(P_relFile)},
      output : {Empty, Str(<<"o">>)},
      appKey : {Empty, Str(<<"k">>)},
      appId : {Empty, Str(<<"i">>)},
      host : {Undef, Str(<<"h">>)} ]

CliDefaults ==
    [ action |-> Str(A_test), directory |-> Undef, file |-> Undef, output |-> Empty,
      appKey |-> Empty, appId |-> Empty, host |-> Undef ]

\* what require() of the configuration file can yield: a key the file omits
\* is undefined
JsonFiles ==
    [ action : {Undef, Str(A_readKYC)},
      directory : {Undef, Str(P_jsonDir)},
      file : {Undef, Str(P_jsonFile)},
      output : {Undef, Str(<<"p">>)},
      appKey : {Undef, Str(<<"K">>)},
      appId : {Undef, Str(<<"I">>)},
      host : {Undef, Str(<<"j", "/">>)} ]

NoJson == [k \in ConfigKeys |-> Undef]

\* names of the plain files a directory can hold
N_png == <<"a", ".", "P", "N", "G">>
N_pdf == <<"b", ".", "p", "d", "f">>
N_txt == <<"c", ".", "t", "x", "t">>
N_nodot == <<"d", "p", "n", "g">>
FileNames == {N_png, N_pdf, N_txt, N_nodot}
\* the name of the subdirectory
N_sub == <<"s">>

\* the listings a directory can have: its names in readdir order, no name twice
Listings(n) ==
    UNION { { s \in [1..k -> FileNames] : \A i, j \in 1..k : i # j => s[i] # s[j] } : k \in 0..n }

\* a directory without subdirectories
LeafDirs ==
    { [readable |-> FALSE, files |-> <<>>, dirs |-> <<>>] } \cup
    { [readable |-> TRUE, files |-> l, dirs |-> <<>>] : l \in Listings(MaxSubFiles) }

\* the directory trees the root can be: unreadable, or plain files and at most
\* one subdirectory
RootDirs ==
    { [readable |-> FALSE, files |-> <<>>, dirs |-> <<>>] } \cup
    { [readable |-> TRUE, files |-> l, dirs |-> d] :
        l \in Listings(MaxRootFiles), d \in {<<>>} \cup { <<s>> : s \in LeafDirs } }

\* the bodies the request callback can be handed
NoBody == [kind |-> "undefined", status |-> "undefined", statusCode |-> "undefined", result |-> "undefined"]
BodySuccess == [kind |-> "object", status |-> "success", statusCode |-> "200", result |-> "data"]
BodyFailure == [kind |-> "object", status |-> "failure", statusCode |-> "400", result |-> "undefined"]
\* a body that is not JSON is handed over as the text it is
BodyText == [kind |-> "string", status |-> "undefined", statusCode |-> "undefined", result |-> "undefined"]

\* request calls back with (err) alone when the transport fails, and with
\* (null, response, body) when a response arrived
CallbackArgs ==
    { [err |-> "ECONNREFUSED", body |-> NoBody] } \cup
    { [err |-> "null", body |-> b] : b \in {BodySuccess, BodyFailure, BodyText} }

(***************************************************************************)
(* listFiles.                                                              *)
(***************************************************************************)
\* path.join(directory, entry)
PathJoin(directory, entry) == directory \o <<"/">> \o entry

\* what a call that can throw hands back
Thrown == [ok |-> FALSE, list |-> <<>>]
Returned(l) == [ok |-> TRUE, list |-> l]

RECURSIVE ConcatListsSkipThrown(_)
\* ConcatLists as it would be if a recursive call that throws were caught and
\* counted as an empty list
ConcatListsSkipThrown(rs) ==
    IF rs = <<>> THEN Returned(<<>>)
    ELSE Returned((IF Head(rs).ok THEN Head(rs).list ELSE <<>>)
                      \o ConcatListsSkipThrown(Tail(rs)).list)

RECURSIVE ConcatLists(_)
\* dirPaths.reduce((prev, curr) => prev.concat(listFiles(curr)), []) over the
\* results of the recursive calls; a call that throws ends the reduce
ConcatLists(rs) ==
    IF rs = <<>> THEN Returned(<<>>)
    ELSE LET rest == ConcatLists(Tail(rs))
         IN  IF Head(rs).ok /\ rest.ok
             THEN Returned(Head(rs).list \o rest.list)
             ELSE Thrown

RECURSIVE AnyUnreadable(_)
\* some directory of the tree cannot be read: listFiles reads every one of
\* them unless an earlier read has thrown
AnyUnreadable(node) ==
    \/ ~node.readable
    \/ \E i \in 1..Len(node.dirs) : AnyUnreadable(node.dirs[i])

\* which readdirSync threw, and how many plain files of the root were known by
\* then: the root is read first, the directories beneath it after its files
NoReadFailure == [where |-> "none", found |-> 0]
ReadFailure(tree) ==
    IF ~tree.readable THEN [where |-> "root", found |-> 0]
    ELSE IF AnyUnreadable(tree) THEN [where |-> "below", found |-> Len(tree.files)]
    ELSE NoReadFailure

RECURSIVE listFiles(_, _)
\* listFiles(directory) where node is the tree found at directory: readdirSync
\* throws on a directory that cannot be read
listFiles(directory, node) ==
    IF ~node.readable THEN Thrown
    ELSE LET filePaths == [i \in 1..Len(node.files) |-> PathJoin(directory, node.files[i])]
             dirFiles == ConcatLists([i \in 1..Len(node.dirs) |->
                             listFiles(PathJoin(directory, N_sub), node.dirs[i])])
             kept == SelectSeq(filePaths \o dirFiles.list,
                               LAMBDA path : supportedFileExtensions(Str(path)))
         IN  IF dirFiles.ok
             THEN Returned([i \in 1..Len(kept) |-> normalisePath(kept[i])])
             ELSE Thrown

(***************************************************************************)
(* The state of the process.                                               *)
(***************************************************************************)
VARIABLES
    pc,          \* where the script is: "config", "merge", "normalise", "boot",
                 \* "dispatch", "testWait", "chain", "upload", "then", "drain", "exited"
    cliConfig,   \* program.config: the path of the configuration file
    json,        \* the constants destructured from the required configuration file
    CONFIG,      \* the script configuration
    mode,        \* the branch of the switch taken: "none", "test", "file", "dir"
    files,       \* directory mode: the list listFiles returned
    next,        \* directory mode: the index of the file the chain uploads next
    requests,    \* the network requests issued so far
    pending,     \* the indexes into requests of the requests not called back yet
    lastErr,     \* the err the request callback of uploadFile was last handed
    data,        \* the outcome uploadFile's promise resolved to, for the then handler
    results,     \* directory mode: the results list
    errors,      \* directory mode: the errors list
    flushQueued, \* directory mode: the flushes queued with promises.then
    sinkPending, \* the streams piped to the sink and not read yet
    sinkWritten, \* what has arrived at the sink (output file or stdout)
    exitCode,    \* the exit status of the process, -1 while it runs
    fatal,       \* what ended the process: the handleError call or the exception
    readError    \* directory mode: the readdirSync of listFiles that threw

vars == <<pc, cliConfig, json, CONFIG, mode, files, next, requests, pending, lastErr,
          data, results, errors, flushQueued, sinkPending, sinkWritten, exitCode, fatal,
          readError>>

configVars == <<cliConfig, json, CONFIG>>
batchVars == <<files, next, results, errors, flushQueued, readError>>
sinkVars == <<sinkPending, sinkWritten>>
callbackVars == <<lastErr, data>>
exitVars == <<exitCode, fatal>>

NoData == [action |-> <<>>, file |-> <<>>, status |-> "undefined",
           statusCode |-> "undefined", result |-> "undefined", err |-> "none"]

Init ==
    /\ pc = "config"
    /\ cliConfig \in {Undef, Str(<<"c">>)}
    /\ json = NoJson
    /\ CONFIG \in CliOptions
    /\ mode = "none"
    /\ files = <<>>
    /\ next = 1
    /\ requests = <<>>
    /\ pending = {}
    /\ lastErr = "none"
    /\ data = NoData
    /\ results = <<>>
    /\ errors = <<>>
    /\ flushQueued = 0
    /\ sinkPending = <<>>
    /\ sinkWritten = <<>>
    /\ exitCode = -1
    /\ fatal = "none"
    /\ readError = NoReadFailure

\* process.exit(code), from handleError or from node on an uncaught exception:
\* what is queued or piped and not yet run is lost
Exit(code, kind) ==
    /\ pc' = "exited"
    /\ exitCode' = code
    /\ fatal' = kind

(***************************************************************************)
(* The configuration: lines 147 to 222.                                    *)
(***************************************************************************)
\* no configuration file was passed: the if of line 148 is skipped
NoConfigFile ==
    /\ pc = "config"
    /\ ~Truthy(cliConfig)
    /\ pc' = "normalise"
    /\ UNCHANGED <<configVars, mode, batchVars, requests, pending, callbackVars, sinkVars, exitVars>>

\* require() of the configuration file: it yields the keys of the file, or
\* throws and the catch ends the process
RequireConfig ==
    /\ pc = "config"
    /\ Truthy(cliConfig)
    /\ \/ /\ \E j \in JsonFiles : json' = j
          /\ pc' = "merge"
          /\ UNCHANGED exitVars
       \/ /\ Exit(E_ConfigFile, "configFile")
          /\ UNCHANGED json
    /\ UNCHANGED <<cliConfig, CONFIG, mode, batchVars, requests, pending, callbackVars, sinkVars>>

\* CONFIG.k = CONFIG.k || k for every key
MergedConfig(config, file) == [k \in ConfigKeys |-> Or(config[k], file[k])]

\* {...base, ...over}: every key is an own property of over, also one that
\* is undefined, so over's value stands
Spread(base, over) == [k \in ConfigKeys |-> over[k]]

\* lines 158 to 169; the destructured constants end with the block
MergeConfig ==
    /\ pc = "merge"
    /\ CONFIG' = Spread(json, MergedConfig(CONFIG, json))
    /\ json' = NoJson
    /\ pc' = "normalise"
    /\ UNCHANGED <<cliConfig, mode, batchVars, requests, pending, callbackVars, sinkVars, exitVars>>

\* line 176 and line 177
NormaliseHost(h) ==
    LET d == Or(h, Str(DefaultHost))
    IN  IF d.s[Len(d.s)] = "/" THEN d ELSE Str(d.s \o <<"/">>)

\* v && normalisePath(v)
NormaliseOption(v) == IF Truthy(v) THEN Str(normalisePath(v.s)) ELSE v

\* lines 176 to 181
Normalise ==
    /\ pc = "normalise"
    /\ CONFIG' = [CONFIG EXCEPT !.host = NormaliseHost(@),
                                !.directory = NormaliseOption(@),
                                !.file = NormaliseOption(@)]
    /\ pc' = "boot"
    /\ UNCHANGED <<cliConfig, json, mode, batchVars, requests, pending, callbackVars, sinkVars, exitVars>>

\* mask(str) reads str.length first: a TypeError when str is undefined
MaskThrows(str) == ~str.def

\* the boot log of lines 205 to 222: nothing catches what mask throws
Boot ==
    /\ pc = "boot"
    /\ IF MaskThrows(CONFIG.appKey) \/ MaskThrows(CONFIG.appId)
       THEN Exit(E_Uncaught, "mask")
       ELSE pc' = "dispatch" /\ UNCHANGED exitVars
    /\ UNCHANGED <<configVars, mode, batchVars, requests, pending, callbackVars, sinkVars>>

(***************************************************************************)
(* uploadFile and writeResults.                                            *)
(***************************************************************************)
\* ext = path.extname(file).split('.')[1]
FileExt(file) == SplitDotSecond(extname(file))

\* UploadFileCheck as it would be without the credentials check of lines 353
\* to 355
UploadFileCheckNoCredentials(file, exists) ==
    IF ~supportedFileExtensions(FileExt(file)) THEN E_Failed
    ELSE IF ~exists THEN E_Failed
    ELSE 0

\* the checks uploadFile makes before the request, in their order: the exit
\* code of the handleError that ends the process, 0 when the request is made.
\* exists: fs.statSync(file) does not throw
UploadFileCheck(file, exists) ==
    IF ~supportedFileExtensions(FileExt(file)) THEN E_Failed
    ELSE IF ~exists THEN E_Failed
    ELSE IF ~Truthy(CONFIG.appId) \/ ~Truthy(CONFIG.appKey) THEN E_Credentials
    ELSE 0

\* the handleError call that ends the process where UploadFileCheck is not 0
UploadFileError(file, exists) ==
    IF ~supportedFileExtensions(FileExt(file)) THEN "unsupported"
    ELSE IF ~exists THEN "unreadable"
    ELSE "credentials"

\* the request of lines 359 to 368; stat: what fs.statSync found of the file
\* whose stream is the form data
UploadRequest(file, exists) ==
    [ method |-> "POST", url |-> CONFIG.host.s \o CONFIG.action.s, file |-> file,
      field |-> FileExt(file), appid |-> CONFIG.appId, appkey |-> CONFIG.appKey,
      stat |-> exists ]

\* the request of line 313
TestRequest ==
    [ method |-> "GET", url |-> CONFIG.host.s, file |-> <<>>,
      field |-> Undef, appid |-> Undef, appkey |-> Undef, stat |-> FALSE ]

\* the part of uploadFile(file, action) that runs before it returns: the
\* process ends in handleError, or the request is on its way
UploadFile(file) ==
    \E exists \in BOOLEAN :
        LET code == UploadFileCheck(file, exists)
        IN  IF code # 0
            THEN /\ Exit(code, UploadFileError(file, exists))
                 /\ UNCHANGED <<requests, pending>>
            ELSE /\ requests' = Append(requests, UploadRequest(file, exists))
                 /\ pending' = pending \cup {Len(requests) + 1}
                 /\ pc' = "upload"
                 /\ UNCHANGED exitVars

\* the outcome the request callback resolves the promise with
Outcome(file, args) ==
    [ action |-> CONFIG.action.s, file |-> file, status |-> args.body.status,
      statusCode |-> args.body.statusCode, result |-> args.body.result, err |-> args.err ]

\* the request callback of lines 369 to 379: destructuring a body that is
\* undefined is a TypeError nothing catches
UploadCallback ==
    /\ pc = "upload"
    /\ \E r \in pending, args \in CallbackArgs :
        /\ pending' = pending \ {r}
        /\ lastErr' = args.err
        /\ IF args.body.kind = "undefined"
           THEN Exit(E_Uncaught, "callback") /\ UNCHANGED data
           ELSE /\ data' = Outcome(requests[r].file, args)
                /\ pc' = "then"
                /\ UNCHANGED exitVars
    /\ UNCHANGED <<configVars, mode, batchVars, requests, sinkVars>>

\* what the sink is handed: one outcome, or the two lists of a directory run
OutcomeValue(d) == [batch |-> FALSE, outcome |-> d, errors |-> <<>>, results |-> <<>>]
BatchValue(es, rs) == [batch |-> TRUE, outcome |-> NoData, errors |-> es, results |-> rs]

\* writeResults(result, output): the stream is piped, to the output file when
\* output is truthy and to stdout otherwise; it is read on a later tick.
\* The value is the streams piped and not read yet
writeResults(result, output) ==
    Append(sinkPending, [toFile |-> Truthy(output), path |-> output, value |-> result])

\* lines 83 to 90: fs.createWriteStream throws at once for an output it
\* rejects (a value that is no path, a path holding a NUL), and the catch
\* reports it; any other failure of the file comes later, from the stream
createWriteStreamThrows(output) == IF Truthy(output) THEN BOOLEAN ELSE {FALSE}

\* a piped stream is read and its text arrives at the sink; an output file
\* that cannot be written emits an error nothing handles
SinkFlush ==
    /\ pc # "exited"
    /\ sinkPending # <<>>
    /\ \E ok \in BOOLEAN :
        IF Head(sinkPending).toFile /\ ~ok
        THEN Exit(E_Uncaught, "sink") /\ UNCHANGED sinkVars
        ELSE /\ sinkWritten' = Append(sinkWritten, Head(sinkPending))
             /\ sinkPending' = Tail(sinkPending)
             /\ UNCHANGED <<pc, exitVars>>
    /\ UNCHANGED <<configVars, mode, batchVars, requests, pending, callbackVars>>

\* nothing is left to run: node ends the process with status 0
ProcessEnd ==
    /\ pc = "drain"
    /\ pending = {}
    /\ flushQueued = 0
    /\ sinkPending = <<>>
    /\ Exit(0, "none")
    /\ UNCHANGED <<configVars, mode, batchVars, requests, pending, callbackVars, sinkVars>>

(***************************************************************************)
(* The switch on the action: lines 225 to 306.                             *)
(***************************************************************************)
\* case 'test': testConnection() sends its request
TestConnection ==
    /\ pc = "dispatch"
    /\ CONFIG.action = Str(A_test)
    /\ mode' = "test"
    /\ requests' = Append(requests, TestRequest)
    /\ pending' = pending \cup {Len(requests) + 1}
    /\ pc' = "testWait"
    /\ UNCHANGED <<configVars, batchVars, callbackVars, sinkVars, exitVars>>

\* the callback of testConnection
TestCallback ==
    /\ pc = "testWait"
    /\ \E r \in pending, err \in {"null", "ECONNREFUSED"} :
        /\ pending' = pending \ {r}
        /\ IF err # "null"
           THEN Exit(E_Failed, "connect")
           ELSE pc' = "drain" /\ UNCHANGED exitVars
    /\ UNCHANGED <<configVars, mode, batchVars, requests, callbackVars, sinkVars>>

\* the guard of the default branch
IsDefaultBranch == pc = "dispatch" /\ CONFIG.action # Str(A_test)

\* the action is none of availableActions
DispatchInvalidAction ==
    /\ IsDefaultBranch
    /\ CONFIG.action.s \notin availableActions
    /\ Exit(E_InvalidAction, "invalidAction")
    /\ UNCHANGED <<configVars, mode, batchVars, requests, pending, callbackVars, sinkVars>>

\* DispatchConflict as it would be if the conflict were reported as a failed
\* action (handleError(104, ...)) and not with its own row of the table
DispatchConflictAsFailed ==
    /\ IsDefaultBranch
    /\ CONFIG.action.s \in availableActions
    /\ Truthy(CONFIG.file) /\ Truthy(CONFIG.directory)
    /\ Exit(E_Failed, "conflict")
    /\ UNCHANGED <<configVars, mode, batchVars, requests, pending, callbackVars, sinkVars>>

\* file and directory are both given
DispatchConflict ==
    /\ IsDefaultBranch
    /\ CONFIG.action.s \in availableActions
    /\ Truthy(CONFIG.file) /\ Truthy(CONFIG.directory)
    /\ Exit(E_Conflict, "conflict")
    /\ UNCHANGED <<configVars, mode, batchVars, requests, pending, callbackVars, sinkVars>>

\* a file path was provided: uploadFile(file, action) is called
DispatchFile ==
    /\ IsDefaultBranch
    /\ CONFIG.action.s \in availableActions
    /\ Truthy(CONFIG.file) /\ ~Truthy(CONFIG.directory)
    /\ mode' = "file"
    /\ UploadFile(CONFIG.file.s)
    /\ UNCHANGED <<configVars, batchVars, callbackVars, sinkVars>>

\* a directory path was provided: listFiles, then the promise chain is built.
\* With no file the reduce calls nothing and nothing more is queued
DispatchDirectory ==
    /\ IsDefaultBranch
    /\ CONFIG.action.s \in availableActions
    /\ ~Truthy(CONFIG.file) /\ Truthy(CONFIG.directory)
    /\ mode' = "dir"
    /\ \E tree \in RootDirs :
        LET listed == listFiles(CONFIG.directory.s, tree)
        IN  /\ readError' = ReadFailure(tree)
            /\ IF ~listed.ok
               THEN Exit(E_Failed, "discovery") /\ UNCHANGED files
               ELSE /\ files' = listed.list
                    /\ pc' = IF listed.list = <<>> THEN "drain" ELSE "chain"
                    /\ UNCHANGED exitVars
    /\ UNCHANGED <<configVars, next, results, errors, flushQueued, requests, pending,
                   callbackVars, sinkVars>>

\* neither a file nor a directory
DispatchMissingPath ==
    /\ IsDefaultBranch
    /\ CONFIG.action.s \in availableActions
    /\ ~Truthy(CONFIG.file) /\ ~Truthy(CONFIG.directory)
    /\ Exit(E_MissingPath, "missingPath")
    /\ UNCHANGED <<configVars, mode, batchVars, requests, pending, callbackVars, sinkVars>>

(***************************************************************************)
(* The handlers of the promise uploadFile returns.                         *)
(***************************************************************************)
\* single-file mode, lines 244 to 254: with err set, writeResults and then
\* handleError, whose process.exit does not wait for the piped stream; a
\* writeResults whose createWriteStream throws ends the process itself
FileThen ==
    /\ pc = "then"
    /\ mode = "file"
    /\ \E thrown \in createWriteStreamThrows(CONFIG.output) :
        IF thrown
        THEN Exit(E_Failed, "write") /\ UNCHANGED sinkPending
        ELSE /\ sinkPending' = writeResults(OutcomeValue(data), CONFIG.output)
             /\ IF data.err # "null"
                THEN Exit(E_Failed, "upload")
                ELSE pc' = "drain" /\ UNCHANGED exitVars
    /\ UNCHANGED <<configVars, mode, batchVars, requests, pending, callbackVars, sinkWritten>>

\* DirStartUpload as it would be if the links did not wait for one another
\* (the reduce callback not returning through acc.then)
DirStartUploadNoWait ==
    /\ pc \in {"chain", "upload"}
    /\ mode = "dir"
    /\ Len(requests) < Len(files)
    /\ UploadFile(files[Len(requests) + 1])
    /\ UNCHANGED <<configVars, mode, batchVars, callbackVars, sinkVars>>

\* directory mode, lines 268 to 272: the link of the chain for files[next]
\* runs once the link before it has resolved
DirStartUpload ==
    /\ pc = "chain"
    /\ next <= Len(files)
    /\ UploadFile(files[next])
    /\ UNCHANGED <<configVars, mode, batchVars, callbackVars, sinkVars>>

\* DirThen as it would be without the completion check of line 284
DirThenFlushEach ==
    /\ pc = "then"
    /\ mode = "dir"
    /\ errors' = IF data.err # "null" THEN Append(errors, data) ELSE errors
    /\ results' = IF data.err # "null" THEN results ELSE Append(results, data)
    /\ flushQueued' = flushQueued + 1
    /\ next' = next + 1
    /\ pc' = IF next < Len(files) THEN "chain" ELSE "drain"
    /\ UNCHANGED <<configVars, mode, files, readError, requests, pending, callbackVars,
                   sinkVars, exitVars>>

\* DirThen as it would be if an outcome that is no success ended the chain:
\* the outcome is recorded and no later link runs
DirThenStopOnFailure ==
    /\ pc = "then"
    /\ mode = "dir"
    /\ errors' = IF data.err # "null" THEN Append(errors, data) ELSE errors
    /\ results' = IF data.err # "null" THEN results ELSE Append(results, data)
    /\ flushQueued' = IF Len(errors') + Len(results') = Len(files)
                      THEN flushQueued + 1 ELSE flushQueued
    /\ next' = next + 1
    /\ pc' = IF next < Len(files) /\ data.status = "success" THEN "chain" ELSE "drain"
    /\ UNCHANGED <<configVars, mode, files, readError, requests, pending, callbackVars,
                   sinkVars, exitVars>>

\* DirThen as it would be if the outcome were put at the front of its list
\* (unshift for push)
DirThenUnshift ==
    /\ pc = "then"
    /\ mode = "dir"
    /\ errors' = IF data.err # "null" THEN <<data>> \o errors ELSE errors
    /\ results' = IF data.err # "null" THEN results ELSE <<data>> \o results
    /\ flushQueued' = IF Len(errors') + Len(results') = Len(files)
                      THEN flushQueued + 1 ELSE flushQueued
    /\ next' = next + 1
    /\ pc' = IF next < Len(files) THEN "chain" ELSE "drain"
    /\ UNCHANGED <<configVars, mode, files, readError, requests, pending, callbackVars,
                   sinkVars, exitVars>>

\* directory mode, lines 273 to 294: the outcome goes to errors or to results,
\* and with all files accounted for the flush is queued
DirThen ==
    /\ pc = "then"
    /\ mode = "dir"
    /\ errors' = IF data.err # "null" THEN Append(errors, data) ELSE errors
    /\ results' = IF data.err # "null" THEN results ELSE Append(results, data)
    /\ flushQueued' = IF Len(errors') + Len(results') = Len(files)
                      THEN flushQueued + 1 ELSE flushQueued
    /\ next' = next + 1
    /\ pc' = IF next < Len(files) THEN "chain" ELSE "drain"
    /\ UNCHANGED <<configVars, mode, files, readError, requests, pending, callbackVars,
                   sinkVars, exitVars>>

\* the queued flush of lines 286 to 291
FlushResults ==
    /\ pc # "exited"
    /\ flushQueued > 0
    /\ flushQueued' = flushQueued - 1
    /\ \E thrown \in createWriteStreamThrows(CONFIG.output) :
        IF thrown
        THEN Exit(E_Failed, "write") /\ UNCHANGED sinkPending
        ELSE /\ sinkPending' = writeResults(BatchValue(errors, results), CONFIG.output)
             /\ UNCHANGED <<pc, exitVars>>
    /\ UNCHANGED <<configVars, mode, files, next, results, errors, readError, requests, pending,
                   callbackVars, sinkWritten>>

Next ==
    \/ NoConfigFile
    \/ RequireConfig
    \/ MergeConfig
    \/ Normalise
    \/ Boot
    \/ TestConnection
    \/ TestCallback
    \/ DispatchInvalidAction
    \/ DispatchConflict
    \/ DispatchFile
    \/ DispatchDirectory
    \/ DispatchMissingPath
    \/ UploadCallback
    \/ FileThen
    \/ DirStartUpload
    \/ DirThen
    \/ FlushResults
    \/ SinkFlush
    \/ ProcessEnd

Spec == Init /\ [][Next]_vars

(***************************************************************************)
(* The claims.                                                             *)
(***************************************************************************)
\* everything writeResults was handed, in order
Emitted == sinkWritten \o sinkPending
\* the BatchResults among them
BatchEmissions == SelectSeq(Emitted, LAMBDA w : w.value.batch)

\* C1: in directory mode the BatchResult is handed to the sink at most once,
\* and a flush is queued or done only when |results| + |errors| = n, with no
\* upload unstarted or unresolved; the BatchResult written has n outcomes.
C1_EmitOnceWhenComplete ==
    mode = "dir" =>
        /\ Len(BatchEmissions) + flushQueued <= 1
        /\ (Len(BatchEmissions) + flushQueued > 0) =>
              /\ Len(results) + Len(errors) = Len(files)
              /\ pending = {}
              /\ Len(requests) = Len(files)
        /\ \A i \in 1..Len(BatchEmissions) :
              Len(BatchEmissions[i].value.results) + Len(BatchEmissions[i].value.errors)
                  = Len(files)

\* a directory run of at least two files whose BatchResult has arrived at the sink
C1_Witness ==
    /\ mode = "dir"
    /\ Len(files) >= 2
    /\ \E i \in 1..Len(sinkWritten) : sinkWritten[i].value.batch

\* C2: a directory run that found no file and ended has written the
\* BatchResult {results: [], errors: []} to the sink.
C2_EmptyBatchEmitted ==
    (mode = "dir" /\ files = <<>> /\ pc = "exited" /\ exitCode = 0) =>
        \E i \in 1..Len(sinkWritten) : sinkWritten[i].value = BatchValue(<<>>, <<>>)

\* C3: in directory mode the uploads are requested in file-list order, and
\* the request for a file is sent only when every earlier request has been
\* called back and its outcome put in a list: at most one is in flight.
C3_SerialUploads ==
    mode = "dir" =>
        /\ Cardinality(pending) <= 1
        /\ pending \subseteq {Len(requests)}
        /\ Len(requests) <= Len(results) + Len(errors) + 1
        /\ Len(requests) <= Len(files)
        /\ \A i \in 1..Len(requests) : requests[i].file = files[i]

\* the second upload of a directory run is in flight
C3_Witness ==
    /\ mode = "dir"
    /\ Len(requests) >= 2
    /\ pending # {}

\* C4: in directory mode, once the files are listed, the process is never
\* ended by the failure exit of handleError (104): an unsupported extension
\* or a missing file found by uploadFile does not end the run.
C4_ItemFailureNotFatal ==
    (mode = "dir" /\ files # <<>> /\ pc = "exited") => exitCode # E_Failed

\* C5: every call of the request callback resolves the promise: the outcome
\* last resolved carries the err the callback was last handed.
C5_AlwaysResolves ==
    lastErr # "none" => data.err = lastErr

\* C6: an outcome whose status is the service's failure has err set, and no
\* such outcome is in results.
C6_FailureHasErr ==
    /\ data.status = "failure" => data.err # "null"
    /\ \A i \in 1..Len(results) : results[i].status # "failure"

\* C7: in single-file mode, when the upload failed (the callback was handed
\* an err) and the process has ended with a non-zero status, the outcome has
\* arrived at the sink and no write of it is left pending.
C7_WrittenBeforeExit ==
    (mode = "file" /\ pc = "exited" /\ exitCode # 0 /\ lastErr \notin {"none", "null"}) =>
        /\ \E i \in 1..Len(sinkWritten) : ~sinkWritten[i].value.batch
        /\ sinkPending = <<>>

CredentialsMissing == ~Truthy(CONFIG.appId) \/ ~Truthy(CONFIG.appKey)

\* C8: in file mode and in directory mode, with appId or appKey empty no
\* request is ever sent, and a process that has ended, unless a file or
\* directory check of its own ended it first (104), has ended with the
\* credentials error (105).
C8_MissingCredentialsFatal ==
    (mode \in {"file", "dir"} /\ CredentialsMissing) =>
        /\ requests = <<>>
        /\ (pc = "exited" /\ exitCode # E_Failed) => exitCode = E_Credentials

\* C9: with the action test, whatever the credentials, a process that has
\* ended (for another reason than an unreadable configuration file) has sent
\* the connectivity request.
C9_TestNeedsNoCredentials ==
    (CONFIG.action = Str(A_test) /\ pc = "exited" /\ exitCode # E_ConfigFile) =>
        \E i \in 1..Len(requests) : requests[i].method = "GET"

\* C10: the merge of the configuration file gives every option the file
\* holds the file's value when the command line left it at its default, and
\* the command line's value otherwise.
C10_ConfigResolution ==
    [][pc = "merge" =>
        \A k \in ConfigKeys :
            json[k].def =>
                CONFIG'[k] = IF CONFIG[k] = CliDefaults[k] THEN json[k] ELSE CONFIG[k]]_vars

\* the extension of path, in the sense of path.extname, is one of gif, jpg,
\* jpeg, tiff, png, pdf whatever its case
HasSupportedExtension(path) ==
    LET e == extname(path)
    IN  Len(e) > 1 /\ LowerCase(Tail(e)) \in ExtensionWords

\* C11: every path listFiles returned has an extension of the supported set,
\* compared case-insensitively; a file without extension is never returned.
C11_OnlySupportedExtensions ==
    mode = "dir" => \A i \in 1..Len(files) : HasSupportedExtension(files[i])

\* the resolved action is one of the supported actions other than test
ValidNonTestAction == CONFIG.action.s \in availableActions \ {A_test}

\* no file was listed, no request sent, nothing handed to the sink
NothingDone == mode = "none" /\ files = <<>> /\ requests = <<>> /\ Emitted = <<>>

\* C12: with a valid action other than test, a process that has ended (for
\* another reason than an unreadable configuration file) has ended with the
\* conflict error (101) when file and directory are both configured and with
\* the missing-path error (100) when neither is, and in both cases has listed
\* no file, sent no request and written nothing.
C12_PathErrors ==
    (pc = "exited" /\ fatal # "configFile" /\ ValidNonTestAction) =>
        /\ (Truthy(CONFIG.file) /\ Truthy(CONFIG.directory)) =>
              (exitCode = E_Conflict /\ NothingDone)
        /\ (~Truthy(CONFIG.file) /\ ~Truthy(CONFIG.directory)) =>
              (exitCode = E_MissingPath /\ NothingDone)

\* the categories of fatal errors: what was wrong with the configuration, the
\* directory read, the upload of a file, the output, the connection test
ConfigurationErrors == {"missingPath", "conflict", "configFile", "invalidAction", "credentials"}
DiscoveryErrors == {"discovery"}
UploadErrors == {"unsupported", "unreadable", "upload"}
SinkErrors == {"write"}
ConnectionErrors == {"connect"}

\* C13 as stated: the exit code of a failed upload (104, lines 248, 340 and
\* 349) is specific to upload errors, so a process that ended with it did not
\* end on a directory-read error, an output-write error or a configuration
\* error (the connection test, which the statement does not list, is left out).
C13_CategorySpecificCodes ==
    (pc = "exited" /\ exitCode = E_Failed) => fatal \in UploadErrors \cup ConnectionErrors

\* the row of handleError's table each kind of fatal error is reported with
HandledCode(kind) ==
    CASE kind = "missingPath" -> E_MissingPath
      [] kind = "conflict" -> E_Conflict
      [] kind = "configFile" -> E_ConfigFile
      [] kind = "invalidAction" -> E_InvalidAction
      [] kind = "credentials" -> E_Credentials
      [] OTHER -> E_Failed

\* C13, amended: every fatal error reported through handleError ends the
\* process with the code of its row of the table; 100, 101, 102, 103 and 105
\* each belong to one kind of configuration error, and 104 is shared by
\* directory-read, pre-upload, upload, connection and output-write failures.
C13_ExitCodeByKind ==
    pc = "exited" =>
        LET handled == ConfigurationErrors \cup DiscoveryErrors \cup UploadErrors
                           \cup SinkErrors \cup ConnectionErrors
        IN  /\ fatal \in handled => exitCode = HandledCode(fatal)
            /\ exitCode \in {E_MissingPath, E_Conflict, E_ConfigFile, E_InvalidAction,
                             E_Failed, E_Credentials}
                  => (fatal \in handled /\ HandledCode(fatal) = exitCode)

\* a rejected output file ended the process with the code of a failed upload
C13_Witness ==
    pc = "exited" /\ fatal = "write" /\ exitCode = E_Failed /\ requests # <<>>

\* C14: every outcome uploadFile has resolved to has err set or a status or
\* result set, and not both: err is null exactly when status or result is there.
C14_ErrXorResult ==
    data # NoData =>
        ((data.err # "null") # (data.status # "undefined" \/ data.result # "undefined"))

\* the fatal errors that keep an upload from resolving or the sink from
\* taking the BatchResult
UploadUnresolved == {"unsupported", "unreadable", "credentials", "callback"}
SinkRejected == {"write"}

\* a step of a directory run is ready: the link of the next file, the
\* callback of the request in flight, the handler of its outcome, the queued
\* flush, a piped stream, or the end of the process
StepReady ==
    \/ pc = "chain" /\ next <= Len(files)
    \/ pc = "upload" /\ pending # {}
    \/ pc = "then"
    \/ pc = "drain"
    \/ flushQueued > 0
    \/ sinkPending # <<>>

Restrict(list, S) ==
    LET pick[k \in 0..Len(list)] ==
            IF k = 0 THEN <<>>
            ELSE IF k \in S THEN Append(pick[k - 1], list[k]) ELSE pick[k - 1]
    IN  pick[Len(list)]

\* the files an outcome list is about
FilesOf(outcomes) == [i \in 1..Len(outcomes) |-> outcomes[i].file]

IsPrefix(s, t) == Len(s) <= Len(t) /\ SubSeq(t, 1, Len(s)) = s

\* C16: in a directory run the files resolved so far are the first
\* |results| + |errors| of the list; results holds, in list order, the
\* outcomes of those whose err is null and errors, in list order, those whose
\* err is set, each resolved file in one list and once; and both lists only
\* ever grow at the end.
C16_BucketsInListOrder ==
    /\ [](mode = "dir" =>
            LET m == Len(results) + Len(errors)
            IN  /\ m <= Len(files)
                /\ \A i \in 1..Len(results) : results[i].err = "null"
                /\ \A i \in 1..Len(errors) : errors[i].err # "null"
                /\ \E S \in SUBSET (1..m) :
                      /\ FilesOf(results) = Restrict(SubSeq(files, 1, m), S)
                      /\ FilesOf(errors) = Restrict(SubSeq(files, 1, m), (1..m) \ S))
    /\ [][IsPrefix(results, results') /\ IsPrefix(errors, errors')]_vars

\* two files of a directory have resolved and results holds their outcomes,
\* the first file's first
C16_Witness ==
    /\ mode = "dir"
    /\ Len(results) = 2
    /\ results[1].file = files[1] /\ results[2].file = files[2]
    /\ results[1].status # results[2].status

\* C17: a directory run in which reading the root or a directory beneath it
\* failed has ended with the fatal error of the directory read, has no file
\* list, has sent no request and has handed nothing to the sink.
C17_ReadFailureFatal ==
    readError # NoReadFailure =>
        /\ pc = "exited" /\ exitCode = E_Failed /\ fatal = "discovery"
        /\ files = <<>>
        /\ requests = <<>>
        /\ Emitted = <<>>

\* the read of a subdirectory failed after two files of the root were listed
C17_Witness ==
    /\ mode = "dir"
    /\ readError.where = "below" /\ readError.found = 2
    /\ pc = "exited"

\* the upload requests among the requests issued
IsUpload(r) == r.method = "POST"

\* C18: every upload request issued is a POST to host + action for an action
\* of the supported ones other than test, for a file whose extension passed
\* the check of uploadFile and which fs.statSync found, and carries an appid
\* and an appkey that are both non-empty.
C18_UploadPreconditions ==
    \A i \in 1..Len(requests) :
        IsUpload(requests[i]) =>
            /\ CONFIG.action.s \in availableActions \ {A_test}
            /\ requests[i].url = CONFIG.host.s \o CONFIG.action.s
            /\ supportedFileExtensions(FileExt(requests[i].file))
            /\ requests[i].stat
            /\ Truthy(requests[i].appid) /\ requests[i].appid = CONFIG.appId
            /\ Truthy(requests[i].appkey) /\ requests[i].appkey = CONFIG.appKey

\* an upload request was issued in a run that read a configuration file
C18_Witness ==
    /\ requests # <<>>
    /\ IsUpload(requests[1])
    /\ mode \in {"file", "dir"}
    /\ cliConfig # Undef

====
